---- MODULE Spec2Model ----
(***************************************************************************)
(* gitbot: the webhook endpoint of src/gitbot/__main__.py.                 *)
(*                                                                         *)
(* One coroutine, main(request), runs per inbound POST.  It reads the      *)
(* body, builds a gidgethub Event from headers and body (which verifies    *)
(* the signature and decodes the payload), opens an aiohttp ClientSession, *)
(* dispatches the event through the module-level Router and answers 200.   *)
(* The only registered callback, issue_opened_event, posts one comment.    *)
(*                                                                         *)
(* The coroutine is cut at its await points; several requests interleave   *)
(* there.  Optional values (None / a missing header / a missing key) are   *)
(* sets with at most one element: {} is "absent".                          *)
(***************************************************************************)
EXTENDS Integers, Sequences, FiniteSets, TLC

\* Number of requests the server handles at the same time.
NumReqs == 2

Reqs == 1..NumReqs

\* A slot used alone, for the specification that handles one request at a time.
OneReq == {1}

----------------------------------------------------------------------------
\* Request bodies.  A body is a byte string; the model names each by its
\* index in this table and gives the result of decoding it as JSON.

Url1 == "https://api.example/issues/1/comments"
Url2 == "https://api.example/issues/2/comments"

Bodies ==
  << [json |-> TRUE, data |-> [action |-> "opened",
        issue |-> [comments_url |-> Url1, user |-> [login |-> "alice"]]]],
     [json |-> TRUE, data |-> [action |-> "opened",
        issue |-> [comments_url |-> Url2, user |-> [login |-> "bob"]]]],
     [json |-> TRUE, data |-> [action |-> "opened",
        issue |-> [user |-> [login |-> "alice"]]]],
     [json |-> TRUE, data |-> [action |-> "opened",
        issue |-> [comments_url |-> Url1, user |-> [id |-> "7"]]]],
     [json |-> TRUE, data |-> [action |-> "opened",
        issue |-> [comments_url |-> Url1]]],
     [json |-> TRUE, data |-> [action |-> "opened"]],
     [json |-> TRUE, data |-> [action |-> "closed",
        issue |-> [comments_url |-> Url1, user |-> [login |-> "alice"]]]],
     [json |-> TRUE, data |-> [
        issue |-> [comments_url |-> Url1, user |-> [login |-> "alice"]]]],
     [json |-> FALSE] >>

BodyIds == DOMAIN Bodies

\* Another body than b: what a signature computed over different bytes covers.
Tampered(b) == IF b = Len(Bodies) THEN 1 ELSE b + 1

\* Values GH_SECRET can have in the environment: unset, empty, set.
GoodSecret == "s3cr3t"
SecretConfigs == { {}, {""}, {GoodSecret} }

\* Keys a sender may sign with.
SenderKeys == { "", GoodSecret, "guess" }

KeyCode(k) == CASE k = "" -> 1 [] k = GoodSecret -> 2 [] OTHER -> 3

\* The keyed digest of a body: distinct for distinct (key, body) pairs.
Hmac(k, b) == (KeyCode(k) * 31 + b * 7) % 257

\* The value of the signature header: absent, or a digest.
Sigs(b) == { {} } \cup { {Hmac(k, b)} : k \in SenderKeys }
                  \cup { {Hmac(GoodSecret, Tampered(b))} }

\* The value of the event-kind header: absent, or a kind.
Kinds == { {}, {"issues"}, {"pull_request"} }

\* Every request the model sends.
WideInputs ==
  UNION { { [sig |-> s, kind |-> k, body |-> b] : s \in Sigs(b), k \in Kinds } :
          b \in BodyIds }

\* The requests sent when several are handled at once.
CoreInputs ==
  { i \in WideInputs :
      /\ i.sig \in { {}, {Hmac(GoodSecret, i.body)}, {Hmac(GoodSecret, Tampered(i.body))} }
      /\ << i.kind, i.body >> \in { << {"issues"}, 1 >>, << {"issues"}, 3 >>,
                                    << {"pull_request"}, 1 >> } }

\* The headers of a set of requests.
HeadersOf(inputs) == { [sig |-> i.sig, kind |-> i.kind] : i \in inputs }

NoRequest == [sig |-> {}, kind |-> {}, body |-> 0]

----------------------------------------------------------------------------
VARIABLES
  GH_SECRET,   \* os.environ.get("GH_SECRET"): {} when unset
  router,      \* the Router's registrations, in registration order
  pc,          \* where each request's main() coroutine stands
  req,         \* the request being handled: headers and body
  event,       \* the Event built by from_http: {} before and on failure
  session,     \* the ClientSession of the request: 0 when none
  gh,          \* the GitHubAPI client of the request: the session it wraps, 0 when none
  open,        \* the ClientSessions that are open
  todo,        \* callbacks dispatch has still to call
  dispatched,  \* router.dispatch was called for the request
  invoked,     \* callbacks called for the request, in order
  posts,       \* outbound POSTs attempted for the request, in order, each with
               \* the session it went through and how it ended
  exc,         \* the exception propagating out of main(): "" when none
  resp         \* the status answered: 0 while unanswered

vars == << GH_SECRET, router, pc, req, event, session, gh, open, todo,
           dispatched, invoked, posts, exc, resp >>

----------------------------------------------------------------------------
\* @router.register("issues", action="opened")
Registrations ==
  << [event |-> "issues", action |-> {"opened"}, callback |-> "issue_opened_event"] >>

Init ==
  /\ GH_SECRET \in SecretConfigs
  /\ router = Registrations
  /\ pc = [r \in Reqs |-> "idle"]
  /\ req = [r \in Reqs |-> NoRequest]
  /\ event = [r \in Reqs |-> {}]
  /\ session = [r \in Reqs |-> 0]
  /\ gh = [r \in Reqs |-> 0]
  /\ open = {}
  /\ todo = [r \in Reqs |-> << >>]
  /\ dispatched = [r \in Reqs |-> FALSE]
  /\ invoked = [r \in Reqs |-> << >>]
  /\ posts = [r \in Reqs |-> << >>]
  /\ exc = [r \in Reqs |-> ""]
  /\ resp = [r \in Reqs |-> 0]

----------------------------------------------------------------------------
\* from_http without the comparison of the signature with the digest.
from_http_NoCompare(headers, body, secret) ==
  IF headers.sig # {} /\ secret = {}
    THEN [raised |-> "ValidationFailure", event |-> {}]
  ELSE IF headers.sig = {} /\ secret # {}
    THEN [raised |-> "ValidationFailure", event |-> {}]
  ELSE IF ~Bodies[body].json
    THEN [raised |-> "BadRequest", event |-> {}]
  ELSE IF headers.kind = {}
    THEN [raised |-> "KeyError", event |-> {}]
  ELSE [raised |-> "",
        event |-> { [event |-> k, data |-> Bodies[body].data] : k \in headers.kind }]

\* sansio.Event.from_http(request.headers, body, secret=secret): the name of
\* the exception it raises ("" when none) and the Event it returns.
\* A signature header needs a secret and must equal the digest of the body
\* under it; a secret needs a signature header; then the body is decoded
\* and the event-kind header read.
from_http(headers, body, secret) ==
  IF headers.sig # {} /\ secret = {}
    THEN [raised |-> "ValidationFailure", event |-> {}]
  ELSE IF headers.sig # {} /\ headers.sig # { Hmac(k, body) : k \in secret }
    THEN [raised |-> "ValidationFailure", event |-> {}]
  ELSE IF headers.sig = {} /\ secret # {}
    THEN [raised |-> "ValidationFailure", event |-> {}]
  ELSE IF ~Bodies[body].json
    THEN [raised |-> "BadRequest", event |-> {}]
  ELSE IF headers.kind = {}
    THEN [raised |-> "KeyError", event |-> {}]
  ELSE [raised |-> "",
        event |-> { [event |-> k, data |-> Bodies[body].data] : k \in headers.kind }]

\* A match on the event's kind alone, whatever the payload's action.
Matches_KindOnly(reg, ev) == reg.event = ev.event

\* Router.fetch(event): the callbacks registered for the event's kind with no
\* action, then those registered for its kind and the payload's action.
Matches(reg, ev) ==
  /\ reg.event = ev.event
  /\ \/ reg.action = {}
     \/ "action" \in DOMAIN ev.data /\ ev.data.action \in reg.action

Callbacks(regs) == [ n \in DOMAIN regs |-> regs[n].callback ]

fetch(table, ev) ==
  Callbacks(SelectSeq(table, LAMBDA reg : reg.action = {} /\ Matches(reg, ev)))
    \o Callbacks(SelectSeq(table, LAMBDA reg : reg.action # {} /\ Matches(reg, ev)))

\* The comment's text without the @ that mentions the reporter.
Message_NoMention(author) ==
  "Thanks for the report " \o author \o "! " \o "I will look into it ASAP! (I'm a bot)."

\* The comment's text.
Message(author) ==
  "Thanks for the report @" \o author \o "! " \o "I will look into it ASAP! (I'm a bot)."

\* issue_opened_event reading the login only after the POST: with the login
\* missing, the POST is made and then the KeyError raised.
issue_opened_event_PostFirst(ev) ==
  IF "issue" \notin DOMAIN ev.data
    THEN [raised |-> "KeyError", post |-> << >>]
  ELSE IF "comments_url" \notin DOMAIN ev.data.issue
    THEN [raised |-> "KeyError", post |-> << >>]
  ELSE IF "user" \notin DOMAIN ev.data.issue \/ "login" \notin DOMAIN ev.data.issue.user
    THEN [raised |-> "KeyError",
          post |-> << [url |-> ev.data.issue.comments_url,
                       data |-> [body |-> "Thanks for the report!"]] >>]
  ELSE [raised |-> "",
        post |-> << [url |-> ev.data.issue.comments_url,
                     data |-> [body |-> Message(ev.data.issue.user.login)]] >>]

\* issue_opened_event(event, git) up to its await: the exception a missing key
\* raises, or the one POST it hands to git.post (url, data={"body": message}).
issue_opened_event(ev) ==
  IF "issue" \notin DOMAIN ev.data
    THEN [raised |-> "KeyError", post |-> << >>]
  ELSE IF "comments_url" \notin DOMAIN ev.data.issue
    THEN [raised |-> "KeyError", post |-> << >>]
  ELSE IF "user" \notin DOMAIN ev.data.issue
    THEN [raised |-> "KeyError", post |-> << >>]
  ELSE IF "login" \notin DOMAIN ev.data.issue.user
    THEN [raised |-> "KeyError", post |-> << >>]
  ELSE [raised |-> "",
        post |-> << [url |-> ev.data.issue.comments_url,
                     data |-> [body |-> Message(ev.data.issue.user.login)]] >>]

----------------------------------------------------------------------------
\* The main() coroutine, one action per stretch between two awaits.

\* A ClientSession() is a new object: none that a request still refers to.
FreshSession == CHOOSE s \in Reqs : \A q \in Reqs : session[q] # s

\* main() is entered for a new request on a slot that handles none.
Free(r) == pc[r] \in {"idle", "done"}

\* body = await request.read() returns; the secret is read and from_http
\* builds the Event or raises, which ends main() with the server's error
\* response.
Read(r, i) ==
  /\ Free(r)
  /\ LET res == from_http(i, i.body, GH_SECRET) IN
       /\ req' = [req EXCEPT ![r] = i]
       /\ event' = [event EXCEPT ![r] = res.event]
       /\ exc' = [exc EXCEPT ![r] = res.raised]
       /\ resp' = [resp EXCEPT ![r] = IF res.raised = "" THEN 0 ELSE 500]
       /\ pc' = [pc EXCEPT ![r] = IF res.raised = "" THEN "session" ELSE "done"]
  /\ session' = [session EXCEPT ![r] = 0]
  /\ gh' = [gh EXCEPT ![r] = 0]
  /\ todo' = [todo EXCEPT ![r] = << >>]
  /\ dispatched' = [dispatched EXCEPT ![r] = FALSE]
  /\ invoked' = [invoked EXCEPT ![r] = << >>]
  /\ posts' = [posts EXCEPT ![r] = << >>]
  /\ UNCHANGED << GH_SECRET, router, open >>

\* await request.read() raises (the sender went away): only the headers h
\* were received, and main() ends with the exception.
ReadFails(r, h) ==
  /\ Free(r)
  /\ req' = [req EXCEPT ![r] = [sig |-> h.sig, kind |-> h.kind, body |-> 0]]
  /\ event' = [event EXCEPT ![r] = {}]
  /\ exc' = [exc EXCEPT ![r] = "ReadError"]
  /\ resp' = [resp EXCEPT ![r] = 500]
  /\ pc' = [pc EXCEPT ![r] = "done"]
  /\ session' = [session EXCEPT ![r] = 0]
  /\ gh' = [gh EXCEPT ![r] = 0]
  /\ todo' = [todo EXCEPT ![r] = << >>]
  /\ dispatched' = [dispatched EXCEPT ![r] = FALSE]
  /\ invoked' = [invoked EXCEPT ![r] = << >>]
  /\ posts' = [posts EXCEPT ![r] = << >>]
  /\ UNCHANGED << GH_SECRET, router, open >>

\* async with aiohttp.ClientSession() as session: entered, and the GitHubAPI
\* client is built on the session.
EnterSession(r) ==
  /\ pc[r] = "session"
  /\ session' = [session EXCEPT ![r] = FreshSession]
  /\ open' = open \cup {FreshSession}
  /\ gh' = [gh EXCEPT ![r] = FreshSession]
  /\ pc' = [pc EXCEPT ![r] = "dispatch"]
  /\ UNCHANGED << GH_SECRET, router, req, event, todo, dispatched, invoked, posts,
                  exc, resp >>

\* await callback(event, gh): the callback of that name, run up to its await.
Call(cb, ev) == CASE cb = "issue_opened_event" -> issue_opened_event(ev)

\* How the POST in flight ended.
Ended(ps, how) == [ps EXCEPT ![Len(ps)].outcome = how]

\* Router.dispatch's loop, `for callback in found: await callback(event, gh)`,
\* from one await to the next, with cbs the callbacks still to call and ps the
\* request's POSTs so far: the next callback runs up to its
\* `await git.post(...)`, or raises; with none left dispatch returns.
CallNext(r, cbs, ps) ==
  IF cbs = << >>
    THEN /\ pc' = [pc EXCEPT ![r] = "exit"]
         /\ todo' = [todo EXCEPT ![r] = << >>]
         /\ posts' = [posts EXCEPT ![r] = ps]
         /\ UNCHANGED << invoked, exc >>
    ELSE LET e == CHOOSE e \in event[r] : TRUE
             res == Call(Head(cbs), e) IN
         /\ invoked' = [invoked EXCEPT ![r] = Append(@, Head(cbs))]
         /\ todo' = [todo EXCEPT ![r] = Tail(cbs)]
         /\ posts' = [posts EXCEPT ![r] =
                        ps \o [ n \in DOMAIN res.post |->
                                 [url |-> res.post[n].url,
                                  data |-> res.post[n].data,
                                  session |-> gh[r],
                                  outcome |-> "pending"] ]]
         /\ IF res.raised = ""
              THEN /\ pc' = [pc EXCEPT ![r] = "post"]
                   /\ UNCHANGED exc
              ELSE /\ exc' = [exc EXCEPT ![r] = res.raised]
                   /\ pc' = [pc EXCEPT ![r] = "exit"]

\* dispatch registering the callback again on every call.
Dispatch_Registers(r) ==
  /\ pc[r] = "dispatch"
  /\ dispatched' = [dispatched EXCEPT ![r] = TRUE]
  /\ router' = router \o Registrations
  /\ CallNext(r, fetch(router', CHOOSE e \in event[r] : TRUE), posts[r])
  /\ UNCHANGED << GH_SECRET, req, event, session, gh, open, resp >>

\* await router.dispatch(event, gh): the callbacks are fetched and the first
\* one is called.
Dispatch(r) ==
  /\ pc[r] = "dispatch"
  /\ dispatched' = [dispatched EXCEPT ![r] = TRUE]
  /\ CallNext(r, fetch(router, CHOOSE e \in event[r] : TRUE), posts[r])
  /\ UNCHANGED << GH_SECRET, router, req, event, session, gh, open, resp >>

\* await git.post(...) returns: the callback ends and dispatch goes on.
PostReturns(r) ==
  /\ pc[r] = "post"
  /\ CallNext(r, todo[r], Ended(posts[r], "ok"))
  /\ UNCHANGED << GH_SECRET, router, req, event, session, gh, open, dispatched, resp >>

\* A failed POST tried again instead of raised.
PostFails_Retry(r) ==
  /\ pc[r] = "post"
  /\ posts' = [posts EXCEPT ![r] =
                 Append(Ended(@, "failed"), [@[Len(@)] EXCEPT !.outcome = "pending"])]
  /\ UNCHANGED << GH_SECRET, router, pc, req, event, session, gh, open, todo,
                  dispatched, invoked, exc, resp >>

\* await git.post(...) raises (no connection, or GitHub answers with an
\* error): nothing catches it, in the callback or in dispatch.
PostFails(r) ==
  /\ pc[r] = "post"
  /\ posts' = [posts EXCEPT ![r] = Ended(@, "failed")]
  /\ exc' = [exc EXCEPT ![r] = "TransportError"]
  /\ pc' = [pc EXCEPT ![r] = "exit"]
  /\ UNCHANGED << GH_SECRET, router, req, event, session, gh, open, todo, dispatched,
                  invoked, resp >>

\* Leaving the block with the exception swallowed: 200 whatever was raised.
ExitSession_Always200(r) ==
  /\ pc[r] = "exit"
  /\ open' = open \ {session[r]}
  /\ resp' = [resp EXCEPT ![r] = 200]
  /\ pc' = [pc EXCEPT ![r] = "done"]
  /\ UNCHANGED << GH_SECRET, router, req, event, session, gh, todo, dispatched,
                  invoked, posts, exc >>

\* Leaving the block without closing the session when an exception passes.
ExitSession_LeakOnError(r) ==
  /\ pc[r] = "exit"
  /\ open' = IF exc[r] = "" THEN open \ {session[r]} ELSE open
  /\ resp' = [resp EXCEPT ![r] = IF exc[r] = "" THEN 200 ELSE 500]
  /\ pc' = [pc EXCEPT ![r] = "done"]
  /\ UNCHANGED << GH_SECRET, router, req, event, session, gh, todo, dispatched,
                  invoked, posts, exc >>

\* The async with block is left, normally or by an exception: the session
\* is closed; then main() returns web.Response(status=200), or the exception
\* leaves main() and the server answers with its error response.
ExitSession(r) ==
  /\ pc[r] = "exit"
  /\ open' = open \ {session[r]}
  /\ resp' = [resp EXCEPT ![r] = IF exc[r] = "" THEN 200 ELSE 500]
  /\ pc' = [pc EXCEPT ![r] = "done"]
  /\ UNCHANGED << GH_SECRET, router, req, event, session, gh, todo, dispatched,
                  invoked, posts, exc >>

----------------------------------------------------------------------------
Receive(r) == \E i \in WideInputs : Read(r, i)
Disconnect(r) == \E h \in HeadersOf(WideInputs) : ReadFails(r, h)

Next ==
  \E r \in OneReq :
    \/ Receive(r)
    \/ Disconnect(r)
    \/ EnterSession(r)
    \/ Dispatch(r)
    \/ PostReturns(r)
    \/ PostFails(r)
    \/ ExitSession(r)

\* Requests handled one at a time, over every request of WideInputs.
Spec == Init /\ [][Next]_vars

ReceiveCore(r) == \E i \in CoreInputs : Read(r, i)
DisconnectCore(r) == \E h \in HeadersOf(CoreInputs) : ReadFails(r, h)

NextConcurrent ==
  \E r \in Reqs :
    \/ ReceiveCore(r)
    \/ DisconnectCore(r)
    \/ EnterSession(r)
    \/ Dispatch(r)
    \/ PostReturns(r)
    \/ PostFails(r)
    \/ ExitSession(r)

\* NumReqs requests handled at once, interleaved at their awaits.
SpecConcurrent == Init /\ [][NextConcurrent]_vars

----------------------------------------------------------------------------
\* What the properties below speak of.

\* The decoded payload of the request's body.
Payload(r) == Bodies[req[r].body].data

\* The request's body was read.
HasBody(r) == req[r].body # 0

\* The request was verified and parsed into an Event.
Parsed(r) == event[r] # {}

\* The request's handling has ended and it has its answer.
Answered(r) == pc[r] = "done"

\* The Event is an ("issues", "opened") event.
IssuesOpened(r) ==
  /\ Parsed(r)
  /\ req[r].kind = {"issues"}
  /\ "action" \in DOMAIN Payload(r) /\ Payload(r).action = "opened"

\* The payload holds issue.comments_url and issue.user.login.
WellFormed(r) ==
  /\ "issue" \in DOMAIN Payload(r)
  /\ "comments_url" \in DOMAIN Payload(r).issue
  /\ "user" \in DOMAIN Payload(r).issue
  /\ "login" \in DOMAIN Payload(r).issue.user

\* The one POST of the request is the acknowledgment the payload asks for.
Acknowledged(r) ==
  /\ Len(posts[r]) = 1
  /\ posts[r][1].url = Payload(r).issue.comments_url
  /\ posts[r][1].data =
       [body |-> "Thanks for the report @" \o Payload(r).issue.user.login
                   \o "! I will look into it ASAP! (I'm a bot)."]

\* A POST of the request failed.
SomePostFailed(r) == \E n \in DOMAIN posts[r] : posts[r][n].outcome = "failed"

\* C1 (as stated): a verified, parsed ("issues", "opened") request with a
\* well-formed payload makes exactly one POST, to the payload's comments_url
\* with the acknowledgment as its body, and is answered 200.
C1_AckThen200 ==
  \A r \in Reqs :
    Answered(r) /\ IssuesOpened(r) /\ WellFormed(r)
      => Acknowledged(r) /\ resp[r] = 200

\* C1 (amended): such a request makes exactly one POST, to the payload's
\* comments_url with the acknowledgment as its body; it is answered 200 when
\* the POST succeeds and with the server's error response when the POST fails.
C1_AckOnce ==
  \A r \in Reqs :
    Answered(r) /\ IssuesOpened(r) /\ WellFormed(r)
      => /\ Acknowledged(r)
         /\ invoked[r] = << "issue_opened_event" >>
         /\ posts[r][1].outcome \in {"ok", "failed"}
         /\ resp[r] = IF posts[r][1].outcome = "ok" THEN 200 ELSE 500

C1_Witness ==
  \E r \in Reqs :
    /\ Answered(r) /\ IssuesOpened(r) /\ WellFormed(r)
    /\ req[r].body = 2 /\ Len(posts[r]) = 1 /\ resp[r] = 200

\* C2: a verified, parsed event that is not ("issues", "opened") raises
\* nothing in dispatch, has no callback called and no POST made, and is
\* answered 200.
C2_UnmatchedIsNoOp ==
  \A r \in Reqs :
    Parsed(r) /\ ~IssuesOpened(r)
      => /\ invoked[r] = << >> /\ posts[r] = << >> /\ exc[r] = ""
         /\ pc[r] # "post"
         /\ (Answered(r) => dispatched[r] /\ resp[r] = 200)

C2_Witness ==
  \E r \in Reqs :
    /\ Answered(r) /\ Parsed(r) /\ dispatched[r] /\ resp[r] = 200
    /\ req[r].kind = {"issues"} /\ req[r].body = 7 /\ Payload(r).action = "closed"

\* The signature header is there and is not the digest of the body under the
\* configured secret (with no secret configured, no digest is).
SignatureMismatch(r) ==
  /\ req[r].sig # {}
  /\ HasBody(r)
  /\ \A k \in GH_SECRET : req[r].sig # {Hmac(k, req[r].body)}

\* Nothing past from_http happened for the request.
NeverReachedRouter(r) ==
  /\ event[r] = {} /\ session[r] = 0 /\ gh[r] = 0
  /\ ~dispatched[r] /\ invoked[r] = << >> /\ posts[r] = << >>
  /\ resp[r] # 200

\* C3: a request whose signature header does not match the digest of its body
\* under the configured secret never reaches the Router: no Event, no
\* session or API client, no dispatch, no callback, no POST, and the answer
\* is the error response.
C3_MismatchShortCircuits ==
  \A r \in Reqs :
    SignatureMismatch(r)
      => NeverReachedRouter(r) /\ (Answered(r) => resp[r] = 500)

C3_Witness ==
  \E r \in Reqs :
    /\ SignatureMismatch(r) /\ Answered(r) /\ resp[r] = 500
    /\ GH_SECRET = {GoodSecret}
    /\ req[r].kind = {"issues"} /\ req[r].body = 1
    /\ req[r].sig = {Hmac(GoodSecret, Tampered(1))}

\* C4 (as stated): with GH_SECRET unset or empty, every request fails
\* verification: none is parsed into an Event, dispatched or answered 200.
C4_NoSecretRejectsAll ==
  \A r \in Reqs :
    GH_SECRET \in { {}, {""} } /\ Answered(r)
      => event[r] = {} /\ ~dispatched[r] /\ resp[r] # 200

\* C5 (as stated): a request without a signature header is answered with the
\* error response, with no callback called and no POST made, whatever the
\* secret is.
C5_NoSignatureRejected ==
  \A r \in Reqs :
    req[r].sig = {} /\ Answered(r)
      => invoked[r] = << >> /\ posts[r] = << >> /\ resp[r] = 500

\* Reading, verifying, parsing and dispatching the request raise nothing:
\* the body was read, from_http accepts it, the callback its event is
\* routed to finds its fields, and no POST failed.
RaisesNothing(r) ==
  /\ HasBody(r)
  /\ LET res == from_http(req[r], req[r].body, GH_SECRET) IN
       /\ res.raised = ""
       /\ \A e \in res.event :
            fetch(Registrations, e) # << >> => issue_opened_event(e).raised = ""
  /\ ~SomePostFailed(r)

\* C6: the answer is 200 exactly when body read, verification, parsing and
\* dispatch (with the callback) raise nothing; anything raised reaches the
\* server, which answers with its error response; and 200 is not sent before
\* dispatch has finished.
C6_200IffNothingRaised ==
  \A r \in Reqs :
    /\ Answered(r) => (resp[r] = 200 <=> RaisesNothing(r))
    /\ Answered(r) => (resp[r] = 500 <=> exc[r] # "")
    /\ Answered(r) => resp[r] \in {200, 500}
    /\ resp[r] = 200 =>
         /\ Answered(r) /\ dispatched[r] /\ todo[r] = << >>
         /\ \A n \in DOMAIN posts[r] : posts[r][n].outcome = "ok"
    /\ ~Answered(r) /\ pc[r] # "idle" => resp[r] = 0

C6_Witness ==
  \E r \in Reqs :
    /\ Answered(r) /\ exc[r] = "BadRequest" /\ resp[r] = 500
    /\ GH_SECRET = {GoodSecret} /\ req[r].sig = {Hmac(GoodSecret, req[r].body)}

\* C7: an ("issues", "opened") event whose payload lacks issue.comments_url
\* or issue.user.login makes the callback raise before any POST: no POST is
\* made and the answer is the error response.
C7_MissingFieldNoPost ==
  \A r \in Reqs :
    IssuesOpened(r) /\ ~WellFormed(r)
      => /\ posts[r] = << >> /\ pc[r] # "post" /\ resp[r] # 200
         /\ (Answered(r) => /\ invoked[r] = << "issue_opened_event" >>
                             /\ exc[r] = "KeyError" /\ resp[r] = 500)

C7_Witness ==
  \E r \in Reqs :
    /\ IssuesOpened(r) /\ Answered(r) /\ req[r].body = 4
    /\ invoked[r] # << >> /\ resp[r] = 500

\* C8: no request makes more than one POST attempt; a failed POST is not
\* tried again, its failure leaves the callback and dispatch, and the request
\* is not answered 200.
C8_NoRetry ==
  \A r \in Reqs :
    /\ Len(posts[r]) <= 1
    /\ SomePostFailed(r)
         => /\ pc[r] \in {"exit", "done"} /\ exc[r] = "TransportError"
            /\ todo[r] = << >> /\ resp[r] # 200
            /\ (Answered(r) => resp[r] = 500)

C8_Witness ==
  \E r \in Reqs : Answered(r) /\ SomePostFailed(r) /\ resp[r] = 500

\* The request is inside its async with block.
InSession(r) == pc[r] \in {"dispatch", "post", "exit"}

\* C9: a request gets its session only once verified and parsed, the session
\* is open exactly while the request is inside its async with block, its
\* POSTs go through its own session and client, no two requests hold the
\* same session, and with every request finished no session is open.
C9_SessionScopedToRequest ==
  /\ \A r \in Reqs :
       /\ session[r] # 0 => Parsed(r)
       /\ InSession(r) <=> session[r] \in open
       /\ gh[r] = session[r]
       /\ \A n \in DOMAIN posts[r] : posts[r][n].session = session[r]
  /\ \A r1, r2 \in Reqs :
       r1 # r2 /\ session[r1] # 0 => session[r1] # session[r2]
  /\ open \subseteq { session[r] : r \in Reqs }
  /\ (\A r \in Reqs : pc[r] \in {"idle", "done"}) => open = {}

C9_Witness ==
  \E r1, r2 \in Reqs :
    /\ r1 # r2
    /\ Answered(r1) /\ session[r1] # 0 /\ exc[r1] # ""
    /\ pc[r2] = "post" /\ session[r2] \in open

\* C10: requests leave the Router's registrations as startup made them, the
\* single ("issues", "opened") -> issue_opened_event, so that at most one
\* callback is called per event.
C10_RouterReadOnly ==
  /\ router = << [event |-> "issues", action |-> {"opened"},
                   callback |-> "issue_opened_event"] >>
  /\ \A r \in Reqs : Len(invoked[r]) <= 1

C10_Witness ==
  \E r1, r2 \in Reqs :
    /\ Answered(r1) /\ resp[r1] = 200 /\ Len(invoked[r1]) = 1
    /\ Answered(r2) /\ exc[r2] = "KeyError"

====
